---- MODULE Spec2Model ----
(***************************************************************************)
(* State-machine model of WhatsAppService (src/services/whatsappService.js) *)
(* The service keeps one entry per session in a handful of Maps, registers   *)
(* event handlers on a transport client and exposes a facade.  Asynchronous  *)
(* functions are cut at their awaits: the part before the first await is one *)
(* action, and every settled promise resumes the function in a later action. *)
(***************************************************************************)
EXTENDS Integers, Sequences, FiniteSets, TLC

\* ------------------------------------------------------------------ bounds

\* Session ids the facade and the transport use.
Ids == {"s1", "s2"}

\* Number of asynchronous calls (createClient, removeClient, handlers that
\* await) that may be started in one behaviour of Spec.
MaxTasks == 2

\* The clock runs from 0 to MaxTime milliseconds in steps of TickSteps.
MaxTime == 5000

TickSteps == {2500}

\* Number of message events of the retention specification.
MaxAppends == 3

\* ------------------------------------------------------- program constants

\* if (clientMessages.length > 1000) clientMessages.shift()
MaxStored == 1000

\* (now - lastGeneration) < 5000
DedupWindowMs == 5000

\* const isExpired = qrAge > 30000
QrLifetimeMs == 30000

\* ------------------------------------------------------------- JS Map values

\* A Map is a function whose domain is the set of its keys.
EmptyMap == [k \in {} |-> 0]

MapHas(m, k) == k \in DOMAIN m

MapSet(m, k, v) == [x \in (DOMAIN m) \cup {k} |-> IF x = k THEN v ELSE m[x]]

MapDelete(m, k) == [x \in (DOMAIN m) \ {k} |-> m[x]]

\* ------------------------------------------------------------ transport data

Statuses == {"initializing", "qr_generated", "authenticated", "ready",
             "auth_failure", "disconnected"}

\* Raw pairing payloads the transport pushes.
Payloads == {"ABC", "XYZ"}

\* require('crypto').createHash('md5').update(qr).digest('hex')
Md5Hex(qr) ==
    CASE qr = "ABC" -> "902fbdd2b1df0c4f70b4a5d23525e932"
      [] qr = "XYZ" -> "e65075d550f9b5bf9992fa1d71a131be"

\* qrcode.toDataURL(qr)
ToDataURL(qr) == <<"data:image/png;base64", qr>>

\* msg.from.includes('@g.us')
IsGroupId(from) == from \in {"team@g.us"}

\* Raw message events: the fields of msg the handler reads.
RawMessage(from, type, timestamp, hasMedia, hasQuotedMsg) ==
    [from |-> from, to |-> "me@c.us", body |-> "hi", type |-> type,
     timestamp |-> timestamp, hasMedia |-> hasMedia, hasQuotedMsg |-> hasQuotedMsg]

RawMessages ==
    {RawMessage("alice@c.us", "chat", 1, FALSE, FALSE),
     RawMessage("team@g.us", "chat", 2, TRUE, TRUE),
     RawMessage("alice@c.us", "image", 2, TRUE, FALSE),
     RawMessage("team@g.us", "image", 1, FALSE, TRUE)}

\* A message with nothing to enrich but its contact, one with media, and one
\* that goes through every enrichment call.
PlainMessage == RawMessage("alice@c.us", "chat", 1, FALSE, FALSE)

MediaMessage == RawMessage("alice@c.us", "image", 2, TRUE, FALSE)

GroupMessage == RawMessage("team@g.us", "chat", 2, TRUE, TRUE)

NoMessage ==
    [from |-> "", to |-> "", body |-> "", type |-> "", timestamp |-> 0,
     hasMedia |-> FALSE, hasQuotedMsg |-> FALSE]

\* ---------------------------------------------------------------- variables

VARIABLES
    clients,                 \* this.clients: the registered client ids
    clientStatus,            \* this.clientStatus: Map id -> status
    qrCodes,                 \* this.qrCodes: Map id -> {qr, qrCodeDataURL, timestamp}
    receivedMessages,        \* this.receivedMessages: Map id -> array of messageData
    lastQRHashes,            \* this.lastQRHashes: [defined, map]
    qrGenerationTimestamps,  \* this.qrGenerationTimestamps: [defined, map]
    websocketService,        \* this.websocketService: "null" or "loaded"
    tasks,                   \* async functions suspended at an await
    nextTask,                \* number of async calls started so far
    now,                     \* Date.now()
    appended,                \* per id: message ids pushed since the array was created
    last,                    \* the last step taken and what it produced
    prev,                    \* the step before it
    reply                    \* what the last facade read returned

state == <<clients, clientStatus, qrCodes, receivedMessages, lastQRHashes,
           qrGenerationTimestamps, websocketService>>

vars == <<clients, clientStatus, qrCodes, receivedMessages, lastQRHashes,
          qrGenerationTimestamps, websocketService, tasks, nextTask, now,
          appended, last, prev, reply>>

\* A property of `this` that the constructor never assigns.
UndefinedMap == [defined |-> FALSE, map |-> EmptyMap]

\* What one step did: the operation, its arguments, its outcome, the EventSink
\* calls it made, the session's status before it and, for a pairing event,
\* the time it arrived.
Step(op, id, arg, n, result, emitted, before) ==
    [op |-> op, id |-> id, arg |-> arg, n |-> n, result |-> result,
     emitted |-> emitted, before |-> before,
     at |-> IF op = "qr" THEN now ELSE 0]

NoStep == [op |-> "none", id |-> "", arg |-> "", n |-> 0, result |-> "",
           emitted |-> << >>, before |-> "", at |-> 0]

\* The step before is kept when it delivered the same event to the same
\* session, which is what "twice in a row" reads.
SameEvent(a, b) == a.op = b.op /\ a.id = b.id /\ a.arg = b.arg

\* A step of a facade read records what it returned.
NoReply == << >>

RecordReply(step, r) ==
    /\ last' = step
    /\ prev' = IF step.op \in {"event", "qr"} /\ SameEvent(last, step) THEN last ELSE NoStep
    /\ reply' = r

Record(step) == RecordReply(step, NoReply)

\* An EventSink call.
Notice(kind, id, arg, n) == [kind |-> kind, id |-> id, arg |-> arg, n |-> n]

StatusOf(id) == IF MapHas(clientStatus, id) THEN clientStatus[id] ELSE "undefined"

\* constructor()
Init ==
    /\ clients = {}
    /\ clientStatus = EmptyMap
    /\ qrCodes = EmptyMap
    /\ receivedMessages = EmptyMap
    /\ lastQRHashes = UndefinedMap
    /\ qrGenerationTimestamps = UndefinedMap
    /\ websocketService = "null"
    /\ tasks = {}
    /\ nextTask = 0
    /\ now = 0
    /\ appended = [i \in Ids |-> << >>]
    /\ last = NoStep
    /\ prev = NoStep
    /\ reply = NoReply

\* getWebSocketService(): loads the module on first use.
GetWebSocketService == websocketService' = "loaded"

\* --------------------------------------------------------------------- tasks

\* An async function suspended at an await.  kind is "init" (createClient at
\* client.initialize()), "destroy" (removeClient at client.destroy()), "qr"
\* (the qr handler at qrcode.toDataURL), "message" (the message handler at
\* the enrichment call named by stage) or "destroyAll" (destroyAllClients at
\* client.destroy() of session id, the sessions in visited done before it).
Task(n, kind, id, stage, qr, msg, data, at) ==
    [n |-> n, kind |-> kind, id |-> id, stage |-> stage, qr |-> qr,
     msg |-> msg, data |-> data, at |-> at, visited |-> {}]

\* messageData and the locals contactInfo / chatInfo while they are built.
NoData == [contact |-> "unset", avatar |-> "null", chat |-> "unset",
           media |-> "absent", quotedMsg |-> "null", receivedAt |-> 0]

\* How an awaited promise settled.
Settled(ok) == IF ok THEN "resolved" ELSE "rejected"

\* ------------------------------------------------------------- createClient

\* createClient, lines 24-26: throw new Error(`Cliente ${clientId} já existe`)
CreateClientRejected(id) ==
    /\ Record(Step("createClient", id, "", 0, "AlreadyExists", << >>, ""))
    /\ UNCHANGED <<state, tasks, nextTask, now, appended>>

\* clients.set(clientId, client), line 271, seen by a destroyAllClients loop
\* suspended inside its for-of over this.clients: a key that was absent is
\* added at the end of the Map, past the iterator, so it is yet to be visited.
Inserted(id) ==
    {IF t.kind = "destroyAll" /\ id \notin clients
     THEN [t EXCEPT !.visited = @ \ {id}] ELSE t : t \in tasks}

\* createClient without line 29: the message array is not initialised.
CreateClientNoStore(id) ==
    /\ clients' = clients \cup {id}
    /\ clientStatus' = MapSet(clientStatus, id, "initializing")
    /\ GetWebSocketService
    /\ nextTask' = nextTask + 1
    /\ tasks' = Inserted(id) \cup
                  {Task(nextTask + 1, "init", id, "initialize", "", NoMessage, NoData, 0)}
    /\ Record(Step("createClient", id, "", nextTask + 1, "pending",
                   <<Notice("status", id, "initializing", 0)>>, ""))
    /\ UNCHANGED <<receivedMessages, appended, qrCodes, lastQRHashes,
                   qrGenerationTimestamps, now>>

\* createClient, lines 28-277: everything up to `await client.initialize()`.
CreateClientRegister(id) ==
    /\ receivedMessages' = MapSet(receivedMessages, id, << >>)
    /\ appended' = [appended EXCEPT ![id] = << >>]
    /\ clients' = clients \cup {id}
    /\ clientStatus' = MapSet(clientStatus, id, "initializing")
    /\ GetWebSocketService
    /\ nextTask' = nextTask + 1
    /\ tasks' = Inserted(id) \cup
                  {Task(nextTask + 1, "init", id, "initialize", "", NoMessage, NoData, 0)}
    /\ Record(Step("createClient", id, "", nextTask + 1, "pending",
                   <<Notice("status", id, "initializing", 0)>>, ""))
    /\ UNCHANGED <<qrCodes, lastQRHashes, qrGenerationTimestamps, now>>

\* createClient without the has() check of line 24.
CreateClientNoCheck(id) == CreateClientRegister(id)

\* async createClient(clientId), up to its await.
CreateClient(id) ==
    IF id \in clients THEN CreateClientRejected(id) ELSE CreateClientRegister(id)

\* createClient, lines 277-278: client.initialize() settles; a rejection is
\* rethrown to the caller.
CreateClientReturn(t, ok) ==
    /\ tasks' = tasks \ {t}
    /\ Record(Step("createClient.return", t.id, Settled(ok), t.n,
                   IF ok THEN "success" ELSE "TransportError", << >>, ""))
    /\ UNCHANGED <<state, nextTask, now, appended>>

\* ------------------------------------------------------------- removeClient

\* removeClient without the check of line 448: teardown is started whether
\* or not the id is registered.
RemoveClientNoCheck(id) ==
    /\ nextTask' = nextTask + 1
    /\ tasks' = tasks \cup {Task(nextTask + 1, "destroy", id, "destroy", "", NoMessage, NoData, 0)}
    /\ Record(Step("removeClient", id, "", nextTask + 1, "pending", << >>, ""))
    /\ UNCHANGED <<state, now, appended>>

\* async removeClient(clientId), up to `await client.destroy()`.
RemoveClient(id) ==
    IF id \notin clients
    THEN /\ Record(Step("removeClient", id, "", 0, "NotFound", << >>, ""))
         /\ UNCHANGED <<state, tasks, nextTask, now, appended>>
    ELSE /\ nextTask' = nextTask + 1
         /\ tasks' = tasks \cup {Task(nextTask + 1, "destroy", id, "destroy", "", NoMessage, NoData, 0)}
         /\ Record(Step("removeClient", id, "", nextTask + 1, "pending", << >>, ""))
         /\ UNCHANGED <<state, now, appended>>

\* removeClient, lines 450-460: client.destroy() settles.  A rejection leaves
\* the function at line 450.  Otherwise the four Maps of the constructor are
\* cleared, and this.lastQRHashes.delete is a call on undefined unless the
\* property was assigned.
RemoveClientResume(t, ok) ==
    /\ tasks' = tasks \ {t}
    /\ IF ~ok
       THEN /\ Record(Step("removeClient.return", t.id, Settled(ok), t.n, "TransportError",
                           << >>, ""))
            /\ UNCHANGED <<state, appended>>
       ELSE /\ clients' = clients \ {t.id}
            /\ clientStatus' = MapDelete(clientStatus, t.id)
            /\ qrCodes' = MapDelete(qrCodes, t.id)
            /\ receivedMessages' = MapDelete(receivedMessages, t.id)
            /\ appended' = [appended EXCEPT ![t.id] = << >>]
            /\ IF lastQRHashes.defined
               THEN /\ lastQRHashes' =
                         [lastQRHashes EXCEPT !.map = MapDelete(@, t.id)]
                    /\ qrGenerationTimestamps' =
                         [qrGenerationTimestamps EXCEPT !.map = MapDelete(@, t.id)]
                    /\ Record(Step("removeClient.return", t.id, Settled(ok), t.n, "success",
                                   << >>, ""))
               ELSE /\ Record(Step("removeClient.return", t.id, Settled(ok), t.n, "TypeError",
                                   << >>, ""))
                    /\ UNCHANGED <<lastQRHashes, qrGenerationTimestamps>>
            /\ UNCHANGED websocketService
    /\ UNCHANGED <<nextTask, now>>

\* -------------------------------------------------------- destroyAllClients

\* destroyAllClients, lines 481-488, after the loop: the four Maps of the
\* constructor are cleared, and this.lastQRHashes.clear is a call on
\* undefined unless the property was assigned.
DestroyAllClear(op, n, arg) ==
    /\ clients' = {}
    /\ clientStatus' = EmptyMap
    /\ qrCodes' = EmptyMap
    /\ receivedMessages' = EmptyMap
    /\ appended' = [i \in Ids |-> << >>]
    /\ IF lastQRHashes.defined
       THEN /\ lastQRHashes' = [lastQRHashes EXCEPT !.map = EmptyMap]
            /\ qrGenerationTimestamps' = [qrGenerationTimestamps EXCEPT !.map = EmptyMap]
            /\ Record(Step(op, "", arg, n, "success", << >>, ""))
       ELSE /\ Record(Step(op, "", arg, n, "TypeError", << >>, ""))
            /\ UNCHANGED <<lastQRHashes, qrGenerationTimestamps>>
    /\ UNCHANGED websocketService

\* destroyAllClients, lines 473-480: the for-of over this.clients moves to
\* the next entry and awaits its client.destroy(), or ends.  The Map yields
\* its entries in insertion order; clients is a set here, so the entries not
\* yet visited are taken in any order.
DestroyAllVisit(others, op, n, visited, arg) ==
    IF clients \ visited = {}
    THEN /\ tasks' = others
         /\ DestroyAllClear(op, n, arg)
    ELSE /\ \E id \in clients \ visited :
              /\ tasks' = others \cup
                     {[Task(n, "destroyAll", id, "destroy", "", NoMessage, NoData, 0)
                          EXCEPT !.visited = visited \cup {id}]}
              /\ Record(Step(op, id, arg, n, "pending", << >>, ""))
         /\ UNCHANGED <<state, appended>>

\* async destroyAllClients(), up to its first await; with no client
\* registered the loop body never runs and the call runs to its end.
DestroyAllClients ==
    /\ nextTask' = IF clients = {} THEN nextTask ELSE nextTask + 1
    /\ DestroyAllVisit(tasks, "destroyAllClients", IF clients = {} THEN 0 ELSE nextTask + 1,
                       {}, "")
    /\ UNCHANGED now

\* destroyAllClients, lines 475-479: client.destroy() settles; a rejection is
\* caught and logged, and the loop goes on either way.
DestroyAllResume(t, ok) ==
    /\ DestroyAllVisit(tasks \ {t}, "destroyAllClients.resume", t.n, t.visited, Settled(ok))
    /\ UNCHANGED <<nextTask, now>>

\* ------------------------------------------------------- lifecycle handlers

\* The body shared by the authenticated, auth_failure and disconnected
\* handlers: overwrite the status, notify only when it changed.
StatusHandler(id, s) ==
    /\ clientStatus' = MapSet(clientStatus, id, s)
    /\ IF StatusOf(id) # s
       THEN /\ GetWebSocketService
            /\ Record(Step("event", id, s, 0, "ok",
                           <<Notice("status", id, s, 0)>>, StatusOf(id)))
       ELSE /\ UNCHANGED websocketService
            /\ Record(Step("event", id, s, 0, "ok", << >>, StatusOf(id)))
    /\ UNCHANGED <<clients, qrCodes, receivedMessages, lastQRHashes,
                   qrGenerationTimestamps, tasks, nextTask, now, appended>>

\* client.on('authenticated', ...)
OnAuthenticated(id) == StatusHandler(id, "authenticated")

\* client.on('auth_failure', ...)
OnAuthFailure(id) == StatusHandler(id, "auth_failure")

\* client.on('disconnected', ...)
OnDisconnected(id) == StatusHandler(id, "disconnected")

\* The ready handler with the bookkeeping cleared before the status is
\* written: the TypeError then leaves the status as it was.
OnReadyClearsFirst(id) ==
    /\ IF lastQRHashes.defined
       THEN /\ clientStatus' = MapSet(clientStatus, id, "ready")
            /\ qrCodes' = MapDelete(qrCodes, id)
            /\ lastQRHashes' = [lastQRHashes EXCEPT !.map = MapDelete(@, id)]
            /\ qrGenerationTimestamps' =
                 [qrGenerationTimestamps EXCEPT !.map = MapDelete(@, id)]
            /\ GetWebSocketService
            /\ Record(Step("event", id, "ready", 0, "ok",
                           <<Notice("status", id, "ready", 0)>>, StatusOf(id)))
       ELSE /\ Record(Step("event", id, "ready", 0, "TypeError", << >>, StatusOf(id)))
            /\ UNCHANGED <<clientStatus, qrCodes, lastQRHashes,
                           qrGenerationTimestamps, websocketService>>
    /\ UNCHANGED <<clients, receivedMessages, tasks, nextTask, now, appended>>

\* client.on('ready', ...): the status is overwritten and the pairing record
\* deleted; this.lastQRHashes.delete then throws out of the handler, before
\* the notification, unless the property was assigned.
OnReady(id) ==
    /\ clientStatus' = MapSet(clientStatus, id, "ready")
    /\ qrCodes' = MapDelete(qrCodes, id)
    /\ IF lastQRHashes.defined
       THEN /\ lastQRHashes' = [lastQRHashes EXCEPT !.map = MapDelete(@, id)]
            /\ qrGenerationTimestamps' =
                 [qrGenerationTimestamps EXCEPT !.map = MapDelete(@, id)]
            /\ IF StatusOf(id) # "ready"
               THEN /\ GetWebSocketService
                    /\ Record(Step("event", id, "ready", 0, "ok",
                                   <<Notice("status", id, "ready", 0)>>, StatusOf(id)))
               ELSE /\ UNCHANGED websocketService
                    /\ Record(Step("event", id, "ready", 0, "ok", << >>, StatusOf(id)))
       ELSE /\ Record(Step("event", id, "ready", 0, "TypeError", << >>, StatusOf(id)))
            /\ UNCHANGED <<lastQRHashes, qrGenerationTimestamps, websocketService>>
    /\ UNCHANGED <<clients, receivedMessages, tasks, nextTask, now, appended>>

\* ---------------------------------------------------------------- qr handler

MapGet(m, k) == IF MapHas(m, k) THEN m[k] ELSE "undefined"

\* this.qrGenerationTimestamps.get(clientId) || 0
LastGeneration(id) ==
    IF MapHas(qrGenerationTimestamps.map, id) THEN qrGenerationTimestamps.map[id] ELSE 0

\* lastHash === qrHash && (now - lastGeneration) < 5000
IsRebroadcast(id, qr, t) ==
    /\ MapGet(lastQRHashes.map, id) = Md5Hex(qr)
    /\ t - LastGeneration(id) < DedupWindowMs

\* client.on('qr', ...), lines 36-49: up to `await qrcode.toDataURL(qr)`.
\* this.lastQRHashes.get is a call on undefined unless the property was
\* assigned; the TypeError is caught at line 71 and only logged.
OnQr(id, qr) ==
    /\ IF ~lastQRHashes.defined
       THEN /\ Record(Step("qr", id, qr, 0, "TypeError", << >>, StatusOf(id)))
            /\ UNCHANGED <<tasks, nextTask>>
       ELSE IF IsRebroadcast(id, qr, now)
       THEN /\ Record(Step("qr", id, qr, 0, "suppressed", << >>, StatusOf(id)))
            /\ UNCHANGED <<tasks, nextTask>>
       ELSE /\ nextTask' = nextTask + 1
            /\ tasks' = tasks \cup
                 {Task(nextTask + 1, "qr", id, "toDataURL", qr, NoMessage, NoData, now)}
            /\ Record(Step("qr", id, qr, nextTask + 1, "pending", << >>, StatusOf(id)))
    /\ UNCHANGED <<state, now, appended>>

\* qr handler, lines 49-73: toDataURL settles.  A rejection is caught and
\* logged.  Otherwise the record and the dedup bookkeeping are stored, the
\* status moves to qr_generated if it was anything else, and the record is
\* always emitted.
OnQrResume(t, ok) ==
    /\ tasks' = tasks \ {t}
    /\ IF ~ok
       THEN /\ Record(Step("qr.resume", t.id, t.qr, t.n, "RenderError", << >>, StatusOf(t.id)))
            /\ UNCHANGED state
       ELSE /\ qrCodes' = MapSet(qrCodes, t.id,
                 [qr |-> t.qr, qrCodeDataURL |-> ToDataURL(t.qr), timestamp |-> now])
            /\ lastQRHashes' = [lastQRHashes EXCEPT !.map = MapSet(@, t.id, Md5Hex(t.qr))]
            /\ qrGenerationTimestamps' =
                 [qrGenerationTimestamps EXCEPT !.map = MapSet(@, t.id, t.at)]
            /\ clientStatus' = MapSet(clientStatus, t.id, "qr_generated")
            /\ GetWebSocketService
            /\ Record(Step("qr.resume", t.id, t.qr, t.n, "stored",
                 IF StatusOf(t.id) # "qr_generated"
                 THEN <<Notice("status", t.id, "qr_generated", 0), Notice("qr", t.id, t.qr, now)>>
                 ELSE <<Notice("qr", t.id, t.qr, now)>>,
                 StatusOf(t.id)))
            /\ UNCHANGED <<clients, receivedMessages>>
    /\ UNCHANGED <<nextTask, now, appended>>

\* getQRCode with >= at line 290: a record expires at its lifetime, not
\* after it.
GetQRCodeExpiresAtLifetime(id, t) ==
    IF id \notin clients
    THEN [error |-> "NotFound", isExpired |-> FALSE, timeUntilExpirationMs |-> 0]
    ELSE IF ~MapHas(qrCodes, id)
    THEN [error |-> "Unavailable", isExpired |-> FALSE, timeUntilExpirationMs |-> 0]
    ELSE LET qrAge == t - qrCodes[id].timestamp
         IN [error |-> "none",
             isExpired |-> qrAge >= QrLifetimeMs,
             timeUntilExpirationMs |->
                 IF QrLifetimeMs - qrAge > 0 THEN QrLifetimeMs - qrAge ELSE 0]

\* getQRCode(clientId), with the Date it reads.
GetQRCode(id, t) ==
    IF id \notin clients
    THEN [error |-> "NotFound", isExpired |-> FALSE, timeUntilExpirationMs |-> 0]
    ELSE IF ~MapHas(qrCodes, id)
    THEN [error |-> "Unavailable", isExpired |-> FALSE, timeUntilExpirationMs |-> 0]
    ELSE LET qrAge == t - qrCodes[id].timestamp
         IN [error |-> "none",
             isExpired |-> qrAge > QrLifetimeMs,
             timeUntilExpirationMs |->
                 IF QrLifetimeMs - qrAge > 0 THEN QrLifetimeMs - qrAge ELSE 0]

\* A call of getQRCode: a read, at the clock's time.
ReadQRCode(id) ==
    /\ LET result == GetQRCode(id, now)
       IN RecordReply(Step("getQRCode", id, "", 0,
                           IF result.error = "none" THEN "success" ELSE result.error,
                           << >>, ""),
                      result)
    /\ UNCHANGED <<state, tasks, nextTask, now, appended>>

\* listClients()
ListClients ==
    {[clientId |-> id,
      status |-> IF MapHas(clientStatus, id) THEN clientStatus[id] ELSE "unknown",
      hasQR |-> MapHas(qrCodes, id),
      messageCount |-> IF MapHas(receivedMessages, id) THEN Len(receivedMessages[id]) ELSE 0]
     : id \in clients}

\* ----------------------------------------------------------- message handler

\* The await the handler reaches after the chat block: downloadMedia if
\* msg.hasMedia, else what follows it.
AfterMedia(msg) == IF msg.hasQuotedMsg THEN "quoted" ELSE "append"

AfterChat(msg) == IF msg.hasMedia THEN "media" ELSE AfterMedia(msg)

AfterContact(msg) == IF IsGroupId(msg.from) THEN "chat" ELSE AfterChat(msg)

\* The await that follows the one at `stage`, settled with `ok`.
NextStage(stage, ok, msg) ==
    CASE stage = "contact" -> IF ok THEN "avatar" ELSE AfterContact(msg)
      [] stage = "avatar"  -> AfterContact(msg)
      [] stage = "chat"    -> AfterChat(msg)
      [] stage = "media"   -> AfterMedia(msg)
      [] stage = "quoted"  -> "append"

\* What the try/catch around the await at `stage` leaves in the locals.
Enrich(data, stage, ok, msg) ==
    CASE stage = "contact" -> [data EXCEPT !.contact = IF ok THEN "full" ELSE "fallback"]
      [] stage = "avatar"  -> [data EXCEPT !.avatar = IF ok THEN "url" ELSE "null"]
      [] stage = "chat"    -> [data EXCEPT !.chat = IF ok THEN "info" ELSE "empty"]
      [] stage = "media"   -> [data EXCEPT !.media = IF ok THEN "data" ELSE "error"]
      [] stage = "quoted"  -> [data EXCEPT !.quotedMsg = IF ok THEN "info" ELSE "null"]

\* Line 190, receivedAt: new Date(), runs in the step that leaves the chat block.
StampReceipt(data, stage, ok, msg) ==
    IF stage \in {"contact", "avatar", "chat"} /\ NextStage(stage, ok, msg) \notin {"avatar", "chat"}
    THEN [data EXCEPT !.receivedAt = now]
    ELSE data

\* const messageData = {...}, lines 181-254.
MessageData(t, data) ==
    [id |-> t.n, from |-> t.msg.from, to |-> t.msg.to, body |-> t.msg.body,
     type |-> t.msg.type, timestamp |-> t.msg.timestamp * 1000,
     isGroup |-> IsGroupId(t.msg.from), hasMedia |-> t.msg.hasMedia,
     receivedAt |-> data.receivedAt, contact |-> data.contact,
     avatar |-> data.avatar,
     chat |-> IF IsGroupId(t.msg.from) THEN data.chat ELSE "null",
     hasQuotedMsg |-> t.msg.hasQuotedMsg, quotedMsg |-> data.quotedMsg,
     media |-> data.media]

\* push without the trim of lines 261-263.
AppendMessageNoTrim(store, m) == Append(store, m)

\* clientMessages.push(messageData); if (length > 1000) clientMessages.shift()
AppendMessage(store, m) ==
    LET pushed == Append(store, m)
    IN IF Len(pushed) > MaxStored THEN Tail(pushed) ELSE pushed

\* this.receivedMessages.get(clientId) || []
StoreOf(id) == IF MapHas(receivedMessages, id) THEN receivedMessages[id] ELSE << >>

\* client.on('message', ...), lines 124-130: up to `await msg.getContact()`.
OnMessage(id, msg) ==
    /\ nextTask' = nextTask + 1
    /\ tasks' = tasks \cup {Task(nextTask + 1, "message", id, "contact", "", msg, NoData, 0)}
    /\ Record(Step("message", id, "", nextTask + 1, "pending", << >>, ""))
    /\ UNCHANGED <<state, now, appended>>

\* Lines 256-268: push, trim, store back, emitNewMessage.
StoreMessage(t, data) ==
    /\ tasks' = tasks \ {t}
    /\ receivedMessages' =
         MapSet(receivedMessages, t.id, AppendMessage(StoreOf(t.id), MessageData(t, data)))
    /\ appended' = [appended EXCEPT ![t.id] = Append(@, t.n)]
    /\ GetWebSocketService
    /\ Record(Step("message.append", t.id, "", t.n, "stored",
                   <<Notice("message", t.id, "", t.n)>>, ""))
    /\ UNCHANGED <<clients, clientStatus, qrCodes, lastQRHashes, qrGenerationTimestamps>>

\* The handler stays suspended, now at the await NextStage names.
AwaitNext(t, data, stage) ==
    /\ tasks' = (tasks \ {t}) \cup {[t EXCEPT !.stage = stage, !.data = data]}
    /\ Record(Step("message.await", t.id, stage, t.n, "pending", << >>, ""))
    /\ UNCHANGED <<state, appended>>

\* The handler with no try/catch around downloadMedia: a rejected download
\* rejects the handler, which ends without storing the message.
OnMessageResumeMediaThrows(t, ok) ==
    /\ LET data  == StampReceipt(Enrich(t.data, t.stage, ok, t.msg), t.stage, ok, t.msg)
           stage == NextStage(t.stage, ok, t.msg)
       IN IF t.stage = "media" /\ ~ok
          THEN /\ tasks' = tasks \ {t}
               /\ Record(Step("message.await", t.id, "rejected", t.n, "Error", << >>, ""))
               /\ UNCHANGED <<state, appended>>
          ELSE IF stage = "append" THEN StoreMessage(t, data) ELSE AwaitNext(t, data, stage)
    /\ UNCHANGED <<nextTask, now>>

\* message handler, lines 130-268: the enrichment call awaited at t.stage
\* settles; every rejection is caught where it happens.
OnMessageResume(t, ok) ==
    /\ LET data  == StampReceipt(Enrich(t.data, t.stage, ok, t.msg), t.stage, ok, t.msg)
           stage == NextStage(t.stage, ok, t.msg)
       IN IF stage = "append" THEN StoreMessage(t, data) ELSE AwaitNext(t, data, stage)
    /\ UNCHANGED <<nextTask, now>>

\* clearMessages(clientId)
ClearMessages(id) ==
    IF id \notin clients
    THEN /\ Record(Step("clearMessages", id, "", 0, "NotFound", << >>, ""))
         /\ UNCHANGED <<state, tasks, nextTask, now, appended>>
    ELSE /\ receivedMessages' = MapSet(receivedMessages, id, << >>)
         /\ appended' = [appended EXCEPT ![id] = << >>]
         /\ Record(Step("clearMessages", id, "", Len(StoreOf(id)), "success", << >>, ""))
         /\ UNCHANGED <<clients, clientStatus, qrCodes, lastQRHashes,
                        qrGenerationTimestamps, websocketService, tasks, nextTask, now>>

\* -------------------------------------------------------------- getMessages

\* The limit of a query that names none, line 394.
DefaultLimit == 50

\* The options of a query.  A field that is absent is falsy at lines 379 and
\* 394: type "" and limit 0 stand for it.  onlyGroups is compared with ===,
\* so it keeps three values.  No query of the model carries from or
\* lastHours.
QueryOptions ==
    [type : {"", "chat"}, onlyGroups : {"undefined", "true", "false"},
     limit : {0, 1, 2}]

\* The sort step with the comparator's operands swapped: a.timestamp -
\* b.timestamp, oldest first.
InsertByTimestampAscending(sorted, m) ==
    LET k == Cardinality({i \in 1..Len(sorted) : m.timestamp - sorted[i].timestamp >= 0})
    IN SubSeq(sorted, 1, k) \o <<m>> \o SubSeq(sorted, k + 1, Len(sorted))

\* One step of Array.prototype.sort with (a, b) => b.timestamp - a.timestamp:
\* m goes behind every element that does not compare after it.
InsertByTimestamp(sorted, m) ==
    LET k == Cardinality({i \in 1..Len(sorted) : sorted[i].timestamp - m.timestamp >= 0})
    IN SubSeq(sorted, 1, k) \o <<m>> \o SubSeq(sorted, k + 1, Len(sorted))

\* filteredMessages.sort(...), line 391; the sort is stable.
RECURSIVE SortByTimestamp(_)
SortByTimestamp(seq) ==
    IF seq = << >> THEN << >>
    ELSE InsertByTimestamp(SortByTimestamp(SubSeq(seq, 1, Len(seq) - 1)), seq[Len(seq)])

\* array.slice(0, limit) for limit >= 0.
Slice(seq, limit) == SubSeq(seq, 1, IF limit < Len(seq) THEN limit ELSE Len(seq))

\* getMessages, lines 360-402, for a registered client.
QueryResult(id, options) ==
    LET messages == StoreOf(id)
        IsType(m) == m.type = options.type
        IsGroup(m) == m.isGroup
        IsIndividual(m) == ~m.isGroup
        byType == IF options.type # "" THEN SelectSeq(messages, IsType) ELSE messages
        byGroup == IF options.onlyGroups = "true" THEN SelectSeq(byType, IsGroup)
                   ELSE IF options.onlyGroups = "false" THEN SelectSeq(byType, IsIndividual)
                   ELSE byType
        limit == IF options.limit # 0 THEN options.limit ELSE DefaultLimit
        filteredMessages == Slice(SortByTimestamp(byGroup), limit)
    IN [clientId |-> id, total |-> Len(messages), filtered |-> Len(filteredMessages),
        messages |-> filteredMessages]

\* getMessages(clientId, options): a read; the filters, the sort and the slice
\* work on the copy of line 361.
GetMessages(id, options) ==
    /\ IF id \notin clients
       THEN RecordReply(Step("getMessages", id, "", 0, "NotFound", << >>, ""), NoReply)
       ELSE RecordReply(Step("getMessages", id, "", 0, "success", << >>, ""),
                        [options |-> options, result |-> QueryResult(id, options)])
    /\ UNCHANGED <<state, tasks, nextTask, now, appended>>

\* ---------------------------------------------------------- getMessageStats

\* getMessageStats, lines 410-429, for a registered client.  A timestamp that
\* is null is the empty set, else the set of the one timestamp.
StatsResult(id, t) ==
    LET messages == StoreOf(id)
        n == Len(messages)
        Count(Test(_)) == Cardinality({i \in 1..n : Test(messages[i])})
        InLastDay(m) == t - m.timestamp <= 24 * 60 * 60 * 1000
        InLastHour(m) == t - m.timestamp <= 60 * 60 * 1000
        IsGroup(m) == m.isGroup
        IsIndividual(m) == ~m.isGroup
        HasMedia(m) == m.hasMedia
    IN [clientId |-> id,
        total |-> n,
        last24Hours |-> Count(InLastDay),
        lastHour |-> Count(InLastHour),
        groups |-> Count(IsGroup),
        individual |-> Count(IsIndividual),
        withMedia |-> Count(HasMedia),
        oldestMessage |-> IF n > 0 THEN {messages[1].timestamp} ELSE {},
        newestMessage |-> IF n > 0 THEN {messages[n].timestamp} ELSE {}]

\* getMessageStats(clientId): a read.
GetMessageStats(id) ==
    /\ IF id \notin clients
       THEN RecordReply(Step("getMessageStats", id, "", 0, "NotFound", << >>, ""), NoReply)
       ELSE RecordReply(Step("getMessageStats", id, "", 0, "success", << >>, ""),
                        StatsResult(id, now))
    /\ UNCHANGED <<state, tasks, nextTask, now, appended>>

\* ------------------------------------------------------------- specification

\* A promise the service awaits settles, resolved (ok) or rejected.
Settle(t, ok) ==
    CASE t.kind = "init"    -> CreateClientReturn(t, ok)
      [] t.kind = "destroy" -> RemoveClientResume(t, ok)
      [] t.kind = "qr"      -> OnQrResume(t, ok)
      [] t.kind = "message" -> OnMessageResume(t, ok)
      [] t.kind = "destroyAll" -> DestroyAllResume(t, ok)

\* Time passes.
Tick(d) ==
    /\ now + d <= MaxTime
    /\ now' = now + d
    /\ UNCHANGED <<state, tasks, nextTask, appended, last, prev, reply>>

\* The transport of a registered client delivers events to its handlers.
Live(id) == id \in clients

Next ==
    \/ \E id \in Ids : (id \in clients \/ nextTask < MaxTasks) /\ CreateClient(id)
    \/ \E id \in Ids : (id \notin clients \/ nextTask < MaxTasks) /\ RemoveClient(id)
    \/ (clients = {} \/ nextTask < MaxTasks) /\ DestroyAllClients
    \/ \E id \in Ids : ClearMessages(id)
    \/ \E id \in Ids, options \in QueryOptions : GetMessages(id, options)
    \/ \E id \in Ids : GetMessageStats(id)
    \/ \E id \in Ids : ReadQRCode(id)
    \/ \E id \in Ids : Live(id) /\ OnAuthenticated(id)
    \/ \E id \in Ids : Live(id) /\ OnAuthFailure(id)
    \/ \E id \in Ids : Live(id) /\ OnDisconnected(id)
    \/ \E id \in Ids : Live(id) /\ OnReady(id)
    \/ \E id \in Ids, qr \in Payloads : Live(id) /\ OnQr(id, qr)
    \/ \E id \in Ids, msg \in RawMessages : Live(id) /\ nextTask < MaxTasks /\ OnMessage(id, msg)
    \/ \E t \in tasks, ok \in BOOLEAN : Settle(t, ok)
    \/ \E d \in TickSteps : Tick(d)

Spec == Init /\ [][Next]_vars

\* Registry, lifecycle and pairing: every step but message ingestion.
LifecycleNext ==
    \/ \E id \in Ids : (id \in clients \/ nextTask < MaxTasks) /\ CreateClient(id)
    \/ \E id \in Ids : (id \notin clients \/ nextTask < MaxTasks) /\ RemoveClient(id)
    \/ (clients = {} \/ nextTask < MaxTasks) /\ DestroyAllClients
    \/ \E id \in Ids : Live(id) /\ OnAuthenticated(id)
    \/ \E id \in Ids : Live(id) /\ OnAuthFailure(id)
    \/ \E id \in Ids : Live(id) /\ OnDisconnected(id)
    \/ \E id \in Ids : Live(id) /\ OnReady(id)
    \/ \E id \in Ids, qr \in Payloads : Live(id) /\ OnQr(id, qr)
    \/ \E t \in tasks, ok \in BOOLEAN : Settle(t, ok)
    \/ \E d \in TickSteps : Tick(d)

SpecLifecycle == Init /\ [][LifecycleNext]_vars

\* Ingestion: sessions are created and removed while messages arrive and
\* are enriched.  The transport settles every promise the service
\* awaits (each call is bounded by the transport's own timeout), so no
\* suspended function waits for ever.  The clock stands still: ingestion
\* reads it only to stamp receivedAt.
IngestNext ==
    \/ \E id \in Ids : (id \in clients \/ nextTask < MaxTasks) /\ CreateClient(id)
    \/ \E id \in Ids : (id \notin clients \/ nextTask < MaxTasks) /\ RemoveClient(id)
    \/ \E id \in Ids, msg \in {PlainMessage, GroupMessage} :
          Live(id) /\ nextTask < MaxTasks /\ OnMessage(id, msg)
    \/ \E t \in tasks, ok \in BOOLEAN : Settle(t, ok)

SpecIngest ==
    /\ Init
    /\ [][IngestNext]_vars
    /\ \A n \in 1..MaxTasks :
          WF_vars(\E t \in tasks, ok \in BOOLEAN : t.n = n /\ Settle(t, ok))

\* Retention starts where session s1 has been created and has stored
\* Prefilled plain messages, delivered one at a time with every enrichment
\* call resolved: the store is two short of its capacity.
Prefilled == MaxStored - 2

PrefilledMessage(i) ==
    MessageData(Task(i + 1, "message", "s1", "avatar", "", PlainMessage, NoData, 0),
                [NoData EXCEPT !.contact = "full", !.avatar = "url"])

RetentionInit ==
    /\ clients = {"s1"}
    /\ clientStatus = MapSet(EmptyMap, "s1", "initializing")
    /\ qrCodes = EmptyMap
    /\ receivedMessages = MapSet(EmptyMap, "s1", [i \in 1..Prefilled |-> PrefilledMessage(i)])
    /\ lastQRHashes = UndefinedMap
    /\ qrGenerationTimestamps = UndefinedMap
    /\ websocketService = "loaded"
    /\ tasks = {}
    /\ nextTask = Prefilled + 1
    /\ now = 0
    /\ appended = [i \in Ids |-> IF i = "s1" THEN [k \in 1..Prefilled |-> k + 1] ELSE << >>]
    /\ last = Step("message.append", "s1", "", Prefilled + 1, "stored",
                   <<Notice("message", "s1", "", Prefilled + 1)>>, "")
    /\ prev = NoStep
    /\ reply = NoReply

\* From there MaxAppends more messages arrive, one at a time, and their
\* enrichment calls resolve or reject.
RetentionNext ==
    \/ \E msg \in {PlainMessage, MediaMessage} :
          /\ Live("s1")
          /\ tasks = {}
          /\ nextTask < Prefilled + 1 + MaxAppends
          /\ OnMessage("s1", msg)
    \/ \E t \in tasks, ok \in BOOLEAN : Settle(t, ok)

SpecRetention == RetentionInit /\ [][RetentionNext]_vars

\* Queries over a store: one session is created, messages of every kind are
\* ingested one at a time with every transport call resolving, and the
\* stores are read between any two steps.
MaxQueryTasks == 4

QueryNext ==
    \/ ("s1" \in clients \/ nextTask < MaxQueryTasks) /\ CreateClient("s1")
    \/ \E msg \in RawMessages :
          /\ Live("s1") /\ nextTask < MaxQueryTasks
          /\ ~\E t \in tasks : t.kind = "message"
          /\ OnMessage("s1", msg)
    \/ \E t \in tasks : Settle(t, TRUE)
    \/ \E id \in Ids, options \in QueryOptions : GetMessages(id, options)
    \/ \E id \in Ids : GetMessageStats(id)

SpecQuery == Init /\ [][QueryNext]_vars

\* -------------------------------------------------------------------- claims

\* The async handler of a pairing event for id has run to its end.
QrHandled(id) == ~\E t \in tasks : t.kind = "qr" /\ t.id = id

\* The stored messages of id that carry message id n.
StoredWithId(id, n) == {i \in 1..Len(StoreOf(id)) : StoreOf(id)[i].id = n}

\* The ids of the stored messages, in store order.
StoredIds(id) == [i \in 1..Len(StoreOf(id)) |-> StoreOf(id)[i].id]

\* The last k elements of a sequence.
LastOf(seq, k) == SubSeq(seq, Len(seq) - k + 1, Len(seq))

Min(a, b) == IF a < b THEN a ELSE b

\* C1: a lifecycle event delivered twice in a row to a session whose status
\* was different before the first delivery produces exactly one status
\* notification: the first delivery emits (id, s), the second emits nothing.
C1_TwiceInARowNotifiesOnce ==
    (last.op = "event" /\ prev.op = "event" /\ prev.before # last.arg)
        => /\ prev.emitted = <<Notice("status", last.id, last.arg, 0)>>
           /\ last.emitted = << >>

\* C2: once the ready event has been handled the session's status is ready,
\* it has no pairing record and no dedup bookkeeping, and getQRCode fails
\* with Unavailable.
C2_ReadyClearsPairing ==
    (last.op = "event" /\ last.arg = "ready")
        => /\ StatusOf(last.id) = "ready"
           /\ ~MapHas(qrCodes, last.id)
           /\ ~MapHas(lastQRHashes.map, last.id)
           /\ ~MapHas(qrGenerationTimestamps.map, last.id)
           /\ GetQRCode(last.id, now).error = "Unavailable"

C2_ReadyHandled ==
    /\ last.op = "event" /\ last.arg = "ready"
    /\ last.before = "authenticated"
    /\ StatusOf(last.id) = "ready"

\* C3: after two pairing events with the same payload have been handled one
\* after the other for one session, a pairing record for the payload is
\* stored; if they arrived less than 5000 ms apart the second was suppressed
\* and the record carries the first event's time, otherwise the second was
\* processed too and the record carries its time.
C3_DedupWithinWindow ==
    (last.op = "qr" /\ prev.op = "qr" /\ QrHandled(last.id))
        => /\ MapHas(qrCodes, last.id)
           /\ qrCodes[last.id].qr = last.arg
           /\ IF last.at - prev.at < DedupWindowMs
              THEN last.result = "suppressed" /\ qrCodes[last.id].timestamp = prev.at
              ELSE last.result # "suppressed" /\ qrCodes[last.id].timestamp = last.at

\* C4: a pairing event that the dedup rule does not suppress, delivered to a
\* session whose status is not qr_generated, ends with a stored pairing
\* record, status qr_generated, one status and one pairing notification, and
\* getQRCode succeeding with isExpired = false.
C4_PairingEventStoresRecord ==
    (/\ last.op \in {"qr", "qr.resume"}
     /\ last.before # "qr_generated"
     /\ last.result \notin {"suppressed", "pending", "RenderError"})
        => /\ MapHas(qrCodes, last.id)
           /\ StatusOf(last.id) = "qr_generated"
           /\ last.emitted = <<Notice("status", last.id, "qr_generated", 0),
                               Notice("qr", last.id, last.arg, now)>>
           /\ GetQRCode(last.id, now).error = "none"
           /\ ~GetQRCode(last.id, now).isExpired

\* C5: createClient on a registered id fails with AlreadyExists and changes
\* nothing: no Map entry, no notification, no new transport initialisation.
C5_CreateExistingRejected ==
    [][\A id \in Ids :
         (id \in clients /\ CreateClient(id))
            => /\ last'.result = "AlreadyExists"
               /\ last'.emitted = << >>
               /\ UNCHANGED <<state, tasks, nextTask, appended>>]_vars

C5_Rejected ==
    /\ last.op = "createClient" /\ last.result = "AlreadyExists"
    /\ Len(StoreOf(last.id)) > 0

\* C6 as claimed: createClient on an unregistered id always succeeds, and
\* when it returns the session is registered with status initializing, an
\* empty message store and no pairing record.
C6_CreateAlwaysSucceeds ==
    last.op = "createClient.return"
        => /\ last.result = "success"
           /\ last.id \in clients
           /\ StatusOf(last.id) = "initializing"
           /\ MapHas(receivedMessages, last.id) /\ StoreOf(last.id) = << >>
           /\ ~MapHas(qrCodes, last.id)

\* C6 amended: createClient on an unregistered id registers the session
\* before it awaits the transport: status initializing, an empty message
\* store, no pairing record, exactly one notification (id, initializing) and
\* the transport initialising; the call succeeds exactly when the transport's
\* initialize resolves and surfaces the transport error when it rejects.
C6_CreateRegistersThenAwaits ==
    /\ (last.op = "createClient" /\ last.result = "pending")
          => /\ last.id \in clients
             /\ StatusOf(last.id) = "initializing"
             /\ MapHas(receivedMessages, last.id) /\ StoreOf(last.id) = << >>
             /\ ~MapHas(qrCodes, last.id)
             /\ last.emitted = <<Notice("status", last.id, "initializing", 0)>>
             /\ \E t \in tasks : t.kind = "init" /\ t.id = last.id /\ t.n = last.n
    /\ last.op = "createClient.return"
          => /\ last.arg = "resolved" => last.result = "success"
             /\ last.arg = "rejected" => last.result = "TransportError"

C6_Registered ==
    /\ last.op = "createClient" /\ last.result = "pending"
    /\ clients = Ids
    /\ StatusOf(last.id) = "initializing"

\* C7: removeClient on a registered session whose teardown succeeds raises
\* no error and leaves nothing of the session behind: no registry entry, no
\* status, no pairing record, no dedup bookkeeping, no message store.
C7_RemoveSucceeds ==
    (last.op = "removeClient.return" /\ last.arg = "resolved")
        => /\ last.result = "success"
           /\ last.id \notin clients
           /\ ~MapHas(clientStatus, last.id)
           /\ ~MapHas(qrCodes, last.id)
           /\ ~MapHas(receivedMessages, last.id)
           /\ ~MapHas(lastQRHashes.map, last.id)
           /\ ~MapHas(qrGenerationTimestamps.map, last.id)

\* C8: removeClient whose teardown fails surfaces the teardown error and
\* still removes the session's registry entry, status, pairing record and
\* message store.
C8_TeardownFailureStillRemoves ==
    (last.op = "removeClient.return" /\ last.arg = "rejected")
        => /\ last.result = "TransportError"
           /\ last.id \notin clients
           /\ ~MapHas(clientStatus, last.id)
           /\ ~MapHas(qrCodes, last.id)
           /\ ~MapHas(receivedMessages, last.id)

\* C9: a session's store never holds more than 1000 messages, and they are
\* the most recently pushed min(n, 1000) messages in the order pushed.
C9_KeepsNewestThousand ==
    \A id \in DOMAIN receivedMessages :
        /\ Len(receivedMessages[id]) <= MaxStored
        /\ Len(receivedMessages[id]) = Min(Len(appended[id]), MaxStored)
        /\ StoredIds(id) = LastOf(appended[id], Min(Len(appended[id]), MaxStored))

C9_FirstEvicted ==
    \E id \in DOMAIN receivedMessages :
        /\ Len(appended[id]) = MaxStored + 1
        /\ Len(receivedMessages[id]) = MaxStored
        /\ StoredWithId(id, appended[id][1]) = {}
        /\ receivedMessages[id][MaxStored].id = appended[id][MaxStored + 1]

\* The message of handler n as stored: once, at the tail, with its core
\* fields, announced by one new-message notification.
StoredOnce(n) ==
    /\ last.op = "message.append" /\ last.n = n
    /\ Cardinality(StoredWithId(last.id, n)) = 1
    /\ LET m == StoreOf(last.id)[Len(StoreOf(last.id))]
       IN /\ m.id = n
          /\ m.from # "" /\ m.to # "" /\ m.body # "" /\ m.type # ""
          /\ m.timestamp > 0
    /\ last.emitted = <<Notice("message", last.id, "", n)>>

\* C10: every message event is eventually stored exactly once with its core
\* fields and announced once, whichever enrichment calls fail.
C10_MessageAlwaysStored ==
    \A n \in 1..MaxTasks :
        (\E t \in tasks : t.n = n /\ t.kind = "message") ~> StoredOnce(n)

C10_StoredDespiteFailures ==
    /\ last.op = "message.append"
    /\ StoredOnce(last.n)
    /\ LET m == StoreOf(last.id)[Len(StoreOf(last.id))]
       IN /\ m.contact = "fallback"
          /\ m.chat = "empty"
          /\ m.media = "error"
          /\ m.hasQuotedMsg /\ m.quotedMsg = "null"

\* One session id is created, removed and created again while the handlers
\* of its message events are suspended at their awaits.
MaxRaceTasks == 4

RaceNext ==
    \/ ("s1" \in clients \/ nextTask < MaxRaceTasks) /\ CreateClient("s1")
    \/ ("s1" \notin clients \/ nextTask < MaxRaceTasks) /\ RemoveClient("s1")
    \/ (clients = {} \/ nextTask < MaxRaceTasks) /\ DestroyAllClients
    \/ \E msg \in {PlainMessage, MediaMessage} :
          Live("s1") /\ nextTask < MaxRaceTasks /\ OnMessage("s1", msg)
    \/ \E t \in tasks, ok \in BOOLEAN : Settle(t, ok)

SpecRace == Init /\ [][RaceNext]_vars

\* getQRCode as a function of the record it reads and the clock.  Its
\* inputs are drawn: session s1 holds the record of a payload stored at a time
\* of GeneratedAt, with the status and the bookkeeping lines 52-58 leave
\* beside it when the two bookkeeping Maps exist; s2 holds none.  The clock
\* then moves on to either side of the record's lifetime.
GeneratedAt == {0, 1}

ExpirySteps == {14999, 15000, 15001}

MaxExpiryClock == 30002

ExpiryInit ==
    \E qr \in Payloads, generated \in GeneratedAt, second \in SUBSET {"s2"} :
        /\ clients = {"s1"} \cup second
        /\ clientStatus = [id \in {"s1"} \cup second |->
                              IF id = "s1" THEN "qr_generated" ELSE "initializing"]
        /\ qrCodes = MapSet(EmptyMap, "s1",
               [qr |-> qr, qrCodeDataURL |-> ToDataURL(qr), timestamp |-> generated])
        /\ receivedMessages = [id \in {"s1"} \cup second |-> << >>]
        /\ lastQRHashes = [defined |-> TRUE, map |-> MapSet(EmptyMap, "s1", Md5Hex(qr))]
        /\ qrGenerationTimestamps =
               [defined |-> TRUE, map |-> MapSet(EmptyMap, "s1", generated)]
        /\ websocketService = "loaded"
        /\ tasks = {}
        /\ nextTask = 0
        /\ now = generated
        /\ appended = [i \in Ids |-> << >>]
        /\ last = NoStep
        /\ prev = NoStep
        /\ reply = NoReply

ExpiryNext ==
    \/ \E id \in Ids : ReadQRCode(id)
    \/ \E d \in ExpirySteps :
          /\ now + d <= MaxExpiryClock
          /\ now' = now + d
          /\ UNCHANGED <<state, tasks, nextTask, appended, last, prev, reply>>

SpecExpiry == ExpiryInit /\ [][ExpiryNext]_vars

\* The least and the greatest timestamp of a store that is not empty.
OldestIn(store) ==
    CHOOSE ts \in {store[i].timestamp : i \in 1..Len(store)} :
        \A i \in 1..Len(store) : ts <= store[i].timestamp

NewestIn(store) ==
    CHOOSE ts \in {store[i].timestamp : i \in 1..Len(store)} :
        \A i \in 1..Len(store) : ts >= store[i].timestamp

\* C11: getMessageStats reports the store's size as total, groups and
\* individual adding up to it, the minimum event timestamp of the stored
\* messages as oldest and the maximum as newest, both null on an empty store.
C11_StatsOldestIsMinimum ==
    (last.op = "getMessageStats" /\ last.result = "success")
        => LET store == StoreOf(last.id)
           IN /\ reply.total = Len(store)
              /\ reply.groups + reply.individual = reply.total
              /\ reply.oldestMessage = IF store = << >> THEN {} ELSE {OldestIn(store)}
              /\ reply.newestMessage = IF store = << >> THEN {} ELSE {NewestIn(store)}

\* C12: getMessages returns only stored messages that satisfy every filter
\* the query names (type by equality, onlyGroups true, false or absent),
\* newest event timestamp first, cut to the limit (50 when none is named) so
\* that no message left out is newer than one returned; filtered is the
\* number returned, total the size of the whole store, and the store is as
\* it was.
C12_QueryFiltersSortsAndLimits ==
    [][(last'.op = "getMessages" /\ last'.result = "success")
         => LET store == StoreOf(last'.id)
                options == reply'.options
                result == reply'.result
                returned == result.messages
                Matches(m) ==
                    /\ options.type # "" => m.type = options.type
                    /\ options.onlyGroups = "true" => m.isGroup
                    /\ options.onlyGroups = "false" => ~m.isGroup
                matching == {i \in 1..Len(store) : Matches(store[i])}
                limit == IF options.limit = 0 THEN 50 ELSE options.limit
                IsReturned(m) == \E i \in 1..Len(returned) : returned[i] = m
            IN /\ \A i \in 1..Len(returned) :
                     Matches(returned[i]) /\ \E j \in matching : store[j] = returned[i]
               /\ \A i \in 1..(Len(returned) - 1) :
                     returned[i].timestamp >= returned[i + 1].timestamp
               /\ Len(returned) = Min(limit, Cardinality(matching))
               /\ \A j \in matching :
                     ~IsReturned(store[j])
                        => /\ Len(returned) = limit
                           /\ store[j].timestamp <= returned[limit].timestamp
               /\ result.filtered = Len(returned)
               /\ result.total = Len(store)
               /\ receivedMessages' = receivedMessages]_vars

\* Three messages are stored, the oldest chat message first; a query for type
\* chat with limit 1 returned the newer chat message alone.
C12_NewestChatOfThree ==
    /\ last.op = "getMessages" /\ last.result = "success"
    /\ reply.options = [type |-> "chat", onlyGroups |-> "undefined", limit |-> 1]
    /\ reply.result.total = 3 /\ reply.result.filtered = 1
    /\ StoreOf(last.id)[1].type = "chat"
    /\ StoreOf(last.id)[1].timestamp < reply.result.messages[1].timestamp
    /\ \E i \in 1..3 : StoreOf(last.id)[i].type = "image"

\* C13: getQRCode on a record generated at T, read at now, reports isExpired
\* exactly when now - T > 30000 and max(0, 30000 - (now - T)) as the time
\* left: not expired at T + 29999, expired at T + 30001.  The read changes no
\* record, status or bookkeeping, and neither does the passing of time.
C13_ExpiryAfterLifetime ==
    [][/\ (\E id \in Ids : ReadQRCode(id)) /\ last'.result = "success"
           => LET age == now - qrCodes[last'.id].timestamp
              IN /\ reply'.isExpired = (age > 30000)
                 /\ reply'.timeUntilExpirationMs = IF age < 30000 THEN 30000 - age ELSE 0
                 /\ age = 29999 => ~reply'.isExpired /\ reply'.timeUntilExpirationMs = 1
                 /\ age = 30001 => reply'.isExpired /\ reply'.timeUntilExpirationMs = 0
       /\ (\E id \in Ids : ReadQRCode(id)) => UNCHANGED state
       /\ now' # now => UNCHANGED state]_vars

\* A record is read at the very end of its lifetime: no time is left and it
\* is not yet expired.
C13_ReadAtLifetime ==
    /\ last.op = "getQRCode" /\ last.result = "success"
    /\ now - qrCodes[last.id].timestamp = 30000
    /\ ~reply.isExpired /\ reply.timeUntilExpirationMs = 0

\* C14: destroyAllClients, once through every registered session whether or
\* not a teardown failed, completes without raising an error and leaves the
\* registry and every per-session Map empty.
C14_DestroyAllCompletes ==
    (last.op \in {"destroyAllClients", "destroyAllClients.resume"} /\ last.result # "pending")
        => /\ last.result = "success"
           /\ clients = {}
           /\ clientStatus = EmptyMap
           /\ qrCodes = EmptyMap
           /\ receivedMessages = EmptyMap

\* C15: removeClient on an id that is not registered fails with NotFound
\* without calling the transport and leaves the registry and every Map as
\* they were: listClients returns the same before and after.
C15_RemoveUnknownNotFound ==
    [][\A id \in Ids :
          (id \notin clients /\ RemoveClient(id))
             => /\ last'.op = "removeClient" /\ last'.result = "NotFound"
                /\ tasks' = tasks
                /\ UNCHANGED state
                /\ ListClients' = ListClients]_vars

\* removeClient of an unregistered id was refused while another session is
\* registered and its transport is still initializing.
C15_RefusedBesideLiveSession ==
    /\ last.op = "removeClient" /\ last.result = "NotFound"
    /\ last.id \notin clients
    /\ clients # {}
    /\ \E t \in tasks : t.kind = "init" /\ t.id \in clients

\* C16: a lifecycle event (authenticated, ready, auth_failure, disconnected)
\* that delivers a status other than the one the live session has, whatever
\* that is, leaves the session with the delivered status and emits exactly one
\* status notification, for that session and that status.
C16_EventTakesEffectFromAnyStatus ==
    (last.op = "event" /\ last.before # last.arg)
        => /\ StatusOf(last.id) = last.arg
           /\ last.emitted = <<Notice("status", last.id, last.arg, 0)>>

\* C18: every id that has a status entry, a pairing record or a message
\* store is registered; a handler that finishes after removeClient or
\* destroyAllClients re-creates nothing for the id that was removed.
C18_StateOnlyForRegistered ==
    (DOMAIN clientStatus \cup DOMAIN qrCodes \cup DOMAIN receivedMessages) \subseteq clients

\* C19: a session created again under the id of a removed one starts with
\* status initializing, an empty store and no pairing record, and its store
\* never takes a message of an event delivered before it was created: while
\* the createClient call numbered n is still at its await, every stored
\* message was delivered after n.
C19_NewSessionIgnoresOldEvents ==
    /\ (last.op = "createClient" /\ last.result = "pending")
          => /\ StatusOf(last.id) = "initializing"
             /\ StoreOf(last.id) = << >>
             /\ ~MapHas(qrCodes, last.id)
    /\ \A t \in tasks :
          (t.kind = "init" /\ t.id \in clients)
             => \A i \in 1..Len(StoreOf(t.id)) : StoreOf(t.id)[i].id > t.n

\* C20: the messages of a session are stored in the order in which their
\* events were delivered, whatever the duration of each handler's
\* enrichment.
C20_StoredInDeliveryOrder ==
    \A id \in DOMAIN receivedMessages :
        \A i, j \in 1..Len(receivedMessages[id]) :
            i < j => receivedMessages[id][i].id < receivedMessages[id][j].id

====
